---- MODULE Spec2Model ----
(***************************************************************************)
(* State-machine model of the neatvnc frame pipeline:                      *)
(*   - the Tight encoder (tight.c part of src/src/display.c),              *)
(*   - the H.264 encoder (src/src/h264-encoder.c),                         *)
(*   - the Open-H.264 framer (src/unnamed/part_000, open-h264.c),          *)
(*   - the display aggregator (src/src/display.c).                         *)
(* Each component has its own next-state relation and specification; the   *)
(* variables of the other components stay at their initial values.         *)
(***************************************************************************)
EXTENDS Integers, Sequences, FiniteSets, TLC

VARIABLES
    (* ---- struct tight_encoder ---- *)
    width, height,          \* self->width, self->height
    grid,                   \* self->grid: tile -> [state, size, type]
    zs,                     \* self->zs[4]: per stream, the tiles deflated through it
    n_jobs,                 \* self->n_jobs
    n_rects,                \* self->n_rects
    quality,                \* self->quality
    on_frame_done,          \* self->on_frame_done/userdata: the call that set them
    dst,                    \* self->dst: items appended to the vector
    fb_ref,                 \* src->ref of the frame buffer passed to the encoder
    zs_worker,              \* self->zs_worker[4]: state of each aml work object
    finish_work,            \* the aml work created by schedule_tight_finish
    aborted,                \* the process died in abort()/assert()
    (* ---- history of the Tight encoder's interface ---- *)
    calls,                  \* one record per tight_encode_frame call, with
                            \* src->ref before the call
    done_log,               \* one record per on_frame_done invocation
    enc_log,                \* one record per tile encoded by a shard job
    (* ---- tight_encode_size ---- *)
    size_arg,               \* the size passed to tight_encode_size, -1: none yet
    size_out,               \* the bytes tight_encode_size appended
    (* ---- struct h264_encoder ---- *)
    fb_queue,               \* self->fb_queue: entries [fb, seq], head first
    current_fb,             \* self->current_fb: an entry, or NULL
    current_packet,         \* self->current_packet: a packet, or NULL
    next_frame_should_be_keyframe,
    current_frame_is_keyframe,
    work,                   \* self->work: state of the aml work object
    fb_refs,                \* fb->ref of each frame buffer
    fb_holds,               \* fb->hold_count of each frame buffer
    (* ---- history of the H.264 encoder's interface ---- *)
    feeds,                  \* one record per h264_encoder_feed call
    last_op,                \* the last call made on the encoder; for a
                            \* request_keyframe, whether the queue was empty
    req_since_entry,        \* request_keyframe called since a frame entered encoding
    entered,                \* one record per frame that entered encoding
    codec_log,              \* one record per h264_encoder__do_work run
    completions,            \* number of h264_encoder__on_work_done runs
    packet_log,             \* one record per on_packet_ready invocation
    (* ---- struct open_h264 and the caller's buffer ---- *)
    encoder,                \* self->encoder: 0 (NULL) or the instance number
    pending,                \* self->pending: bytes
    o_width, o_height, o_format,  \* self->width, self->height, self->format
    needs_reset,            \* self->needs_reset
    buffer,                 \* the vec the caller passes to open_h264_read
    (* ---- history of the framer's interface ---- *)
    enc_unanswered,         \* frames fed to the encoder with no packet yet
    arrived,                \* packets received since the last successful read,
                            \* each with the size of the encoder it came from
    recreated,              \* encoder recreated since the last emitted rectangle
    n_feed_frames,          \* number of open_h264_feed_frame calls
    n_reads,                \* number of open_h264_read calls
    last_read,              \* the last open_h264_read call: arguments and result
    last_feed_frame,        \* the last open_h264_feed_frame call: its result,
                            \* the encoder it destroyed and the frames that
                            \* encoder had been fed and not yet answered
    (* ---- struct nvnc_display ---- *)
    d_buffer,               \* self->buffer: the current frame buffer, or NULL
    d_ref,                  \* self->ref
    d_freed,                \* nvnc__display_free has run
    is_open_h264_supported, \* self->is_open_h264_supported
    d_fb_ref,               \* per frame buffer: refs the display holds on it
    d_fb_hold,              \* per frame buffer: holds the display has on it
    rs_pending,             \* resampler_feed calls whose completion is due
    (* ---- history of the display's interface ---- *)
    n_display_feeds,        \* number of nvnc_display_feed_buffer calls
    rs_done,                \* per feed_buffer call: the buffers its completions delivered
    damage_log,             \* one record per nvnc__damage_region call
    d_handover,             \* the last completion that delivered the current
                            \* buffer itself: the display's holds and refs on
                            \* it between release/unref and ref/hold
    (* ---- threads ---- *)
    callback_ctx            \* the callbacks invoked so far, with the thread
                            \* each invocation ran on

tight_vars == <<width, height, grid, zs, n_jobs, n_rects, quality,
                on_frame_done, dst, fb_ref, zs_worker, finish_work, aborted,
                calls, done_log, enc_log>>

h264_vars == <<fb_queue, current_fb, current_packet,
               next_frame_should_be_keyframe, current_frame_is_keyframe,
               work, fb_refs, fb_holds, feeds, last_op, req_since_entry,
               entered, codec_log, completions, packet_log>>

framer_vars == <<encoder, pending, o_width, o_height, o_format, needs_reset,
                 buffer, enc_unanswered, arrived, recreated, n_feed_frames,
                 n_reads, last_read, last_feed_frame>>

display_vars == <<d_buffer, d_ref, d_freed, is_open_h264_supported, d_fb_ref,
                  d_fb_hold, rs_pending, n_display_feeds, rs_done,
                  damage_log,
                   d_handover>>

size_vars == <<size_arg, size_out>>

vars == <<tight_vars, size_vars, h264_vars, framer_vars, display_vars,
          callback_ctx>>

(***************************************************************************)
(* Bounds of the model.                                                    *)
(***************************************************************************)
MaxFrames == 2              \* tight_encode_frame calls per behaviour
MaxFeeds == 3               \* h264_encoder_feed calls per behaviour
MaxFeedFrames == 3          \* open_h264_feed_frame calls per behaviour
MaxReads == 3               \* open_h264_read calls per behaviour
MaxDisplayFeeds == 3        \* nvnc_display_feed_buffer calls per behaviour
MaxDisplayRefs == 2         \* largest value of the display's ref count

(***************************************************************************)
(* Work objects: aml_work_new(work_fn, done_fn, ...). The thread pool runs *)
(* work_fn on a worker thread; the main loop then runs done_fn.            *)
(***************************************************************************)
\* Mutant: the two functions are registered the other way round.
tight_finish_work_swapped ==
    [work_fn |-> "on_tight_finished", done_fn |-> "do_tight_finish"]

\* schedule_tight_finish: aml_work_new(do_tight_finish, on_tight_finished, ..)
tight_finish_work ==
    [work_fn |-> "do_tight_finish", done_fn |-> "on_tight_finished"]

\* h264_encoder_create: aml_work_new(h264_encoder__do_work,
\* h264_encoder__on_work_done, ..)
h264_work ==
    [work_fn |-> "h264_encoder__do_work",
     done_fn |-> "h264_encoder__on_work_done"]

\* The thread a function of a work object runs on.
ThreadOf(fn, w) ==
    IF fn = w.work_fn THEN "worker"
    ELSE IF fn = w.done_fn THEN "main" ELSE "unknown"

\* open_h264_handle_packet is the encoder's on_packet_ready: it runs where
\* h264_encoder__on_work_done runs.
packet_handler_thread == ThreadOf("h264_encoder__on_work_done", h264_work)

\* The resampler posts its completion to the scheduling context of the
\* resampler_feed call, which nvnc_display_feed_buffer makes on the main loop.
resampler_done_thread == "main"

\* A callback is invoked on a thread.
Invoke(callback, thread) ==
    callback_ctx' = callback_ctx \cup {[callback |-> callback,
                                        thread |-> thread]}

(***************************************************************************)
(* Program constants.                                                      *)
(***************************************************************************)
TSL == 64
TIGHT_JPEG == 144
TIGHT_BASIC == 0
RFB_ENCODING_TIGHT == 7

UDIV_UP(a, b) == (a + b - 1) \div b

TIGHT_STREAM(n) == n * 16

\* (width, height) pairs the encoder is initialised with: a 2x2 grid and a
\* 5x1 grid whose last column is partial and wraps around the four shards.
EncoderSizes == {<<128, 128>>, <<300, 64>>}

Qualities == {"LOW", "HIGH", "LOSSLESS"}

\* tile->size after a successful encode of one tile (bytes of deflate/JPEG)
EncodedSizes == {200}

grid_width == UDIV_UP(width, 64)
grid_height == UDIV_UP(height, 64)

Tiles == (0 .. grid_width - 1) \X (0 .. grid_height - 1)

\* Row-major position of a tile: the order of the for-loops over y then x.
RowMajor(t) == t[1] + t[2] * grid_width

\* Mutant: a tile at the right edge is given the full tile width.
tight_tile_width_full(x) == TSL

tight_tile_width(x) == IF x + TSL > width THEN width - x ELSE TSL
tight_tile_height(y) == IF y + TSL > height THEN height - y ELSE TSL

(***************************************************************************)
(* Damage regions: sets of pixman boxes [x1, x2) x [y1, y2).               *)
(***************************************************************************)
Box(x1, y1, x2, y2) == [x1 |-> x1, y1 |-> y1, x2 |-> x2, y2 |-> y2]

DamageRegions ==
    { {},                                   \* empty region
      {Box(0, 0, 128, 128)},                \* the whole 128x128 frame
      {Box(63, 0, 64, 64)},                 \* last pixel column of tile (0,0)
      {Box(0, 0, 10, 10), Box(260, 0, 270, 10)} }  \* tiles (0,0) and (4,0)

\* pixman_region_contains_rectangle(region, box) != PIXMAN_REGION_OUT
RegionOverlaps(region, box) ==
    \E r \in region :
        /\ r.x1 < box.x2 /\ box.x1 < r.x2
        /\ r.y1 < box.y2 /\ box.y1 < r.y2

\* The box tight_apply_damage builds for the tile at grid position t.
TileBox(t) == Box(t[1] * TSL, t[2] * TSL,
                  ((t[1] + 1) * TSL) - 1, ((t[2] + 1) * TSL) - 1)

TileDamaged(damage, t) == RegionOverlaps(damage, TileBox(t))

\* tight_apply_damage: the new tile states and the number of damaged tiles.
tight_apply_damage(damage) ==
    [t \in Tiles |->
        [grid[t] EXCEPT !.state =
            IF TileDamaged(damage, t) THEN "DAMAGED" ELSE "READY"]]

DamagedTiles(g) == {t \in Tiles : g[t].state = "DAMAGED"}

(***************************************************************************)
(* Initial state: after tight_encoder_init(width, height).                 *)
(***************************************************************************)
TightInit ==
    /\ \E sz \in EncoderSizes : width = sz[1] /\ height = sz[2]
    /\ grid = [t \in Tiles |-> [state |-> "READY", size |-> 0, type |-> 0]]
    /\ zs = [i \in 0 .. 3 |-> <<>>]
    /\ n_jobs = 0
    /\ n_rects = 0
    /\ quality = "UNSPEC"
    /\ on_frame_done = 0
    /\ dst = <<>>
    /\ fb_ref = 1
    /\ zs_worker = [i \in 0 .. 3 |-> "idle"]
    /\ finish_work = "none"
    /\ aborted = FALSE
    /\ calls = <<>>
    /\ done_log = <<>>
    /\ enc_log = {}

(***************************************************************************)
(* tight_encode_frame (main thread).  Callers await on_done before the     *)
(* next call (spec section 5): TightQuiescent is the state in which they   *)
(* make it, and the function itself does not test it.  nstarted is the     *)
(* number of aml_start calls that succeed in tight_schedule_encoding_jobs  *)
(* before the first one fails (4: all shard jobs were started).            *)
(***************************************************************************)
TightQuiescent ==
    /\ \A i \in 0 .. 3 : zs_worker[i] = "idle"
    /\ finish_work = "none"

\* tight_schedule_zs_work for i = 0 .. nstarted-1
ScheduledWorkers(nstarted) ==
    [i \in 0 .. 3 |-> IF i < nstarted /\ zs_worker[i] = "idle"
                      THEN "started" ELSE zs_worker[i]]

\* encode_rect_count(&self->dst, n)
RectCount(n) == [kind |-> "count", n |-> n]

tight_encode_frame(damage, q, nstarted) ==
    LET g == tight_apply_damage(damage)
        n == Cardinality(DamagedTiles(g))
        id == Len(calls) + 1
    IN  /\ ~aborted
        /\ Len(calls) < MaxFrames
        /\ quality' = q
        /\ on_frame_done' = id
        /\ grid' = g
        /\ n_rects' = n
        /\ IF n = 0
           THEN \* assert(self->n_rects > 0) fails
                /\ aborted' = TRUE
                /\ dst' = <<>>
                /\ calls' = Append(calls, [rc |-> "abort", damaged |-> {},
                                           n_rects |-> n, quality |-> q,
                                           fb_ref |-> fb_ref,
                                           overlapping |-> ~TightQuiescent])
                /\ UNCHANGED <<fb_ref, n_jobs, zs_worker>>
           ELSE /\ aborted' = FALSE
                /\ zs_worker' = ScheduledWorkers(nstarted)
                /\ n_jobs' = n_jobs + nstarted
                /\ IF nstarted = 4
                   THEN /\ dst' = <<RectCount(n)>>
                        /\ fb_ref' = fb_ref + 1
                        /\ calls' = Append(calls,
                               [rc |-> "ok", damaged |-> DamagedTiles(g),
                                n_rects |-> n, quality |-> q,
                                fb_ref |-> fb_ref,
                                overlapping |-> ~TightQuiescent])
                   ELSE \* nvnc_fb_unref(self->fb); vec_destroy(&self->dst)
                        /\ dst' = <<>>
                        /\ fb_ref' = fb_ref
                        /\ calls' = Append(calls,
                               [rc |-> "fail", damaged |-> DamagedTiles(g),
                                n_rects |-> n, quality |-> q,
                                fb_ref |-> fb_ref,
                                overlapping |-> ~TightQuiescent])
    /\ UNCHANGED <<h264_vars, framer_vars, display_vars, size_vars,
                   callback_ctx,
                   width, height, zs, finish_work, done_log, enc_log>>

(***************************************************************************)
(* do_tight_zs_work (worker thread of shard index): one step per tile.     *)
(***************************************************************************)
\* Mutant: the inner loop advances by 1 instead of 4.
ShardTiles_step1(index) == {t \in Tiles : t[1] >= index}

\* The tiles the loops of do_tight_zs_work visit: x = index, index+4, ...
ShardTiles(index) ==
    {t \in Tiles : \E k \in 0 .. grid_width : t[1] = index + 4 * k}

\* gx % 4 in tight_encode_tile: the deflate stream of a tile
zs_index(gx) == gx % 4

\* The next damaged tile of the shard in loop order (y outer, x inner).
NextDamaged(index) ==
    LET d == {t \in ShardTiles(index) : grid[t].state = "DAMAGED"}
    IN  CHOOSE t \in d : \A u \in d : RowMajor(t) <= RowMajor(u)

\* tight_encode_tile_basic: control byte and deflate through zs[zs_index]
tight_encode_tile_basic(index, t, size) ==
    /\ grid' = [grid EXCEPT ![t] =
           [state |-> "ENCODED", size |-> size,
            type |-> TIGHT_BASIC + TIGHT_STREAM(zs_index(t[1]))]]
    /\ zs' = [zs EXCEPT ![zs_index(t[1])] = Append(@, t)]
    /\ enc_log' = enc_log \cup
           {[frame |-> Len(calls), tile |-> t, worker |-> index,
             stream |-> zs_index(t[1])]}

\* Mutant: a tile whose JPEG compression failed is not marked encoded.
tight_encode_tile_jpeg_skip(index, t, size) ==
    /\ grid' = [grid EXCEPT ![t] =
           [state |-> IF size = 0 THEN "READY" ELSE "ENCODED",
            size |-> size, type |-> TIGHT_JPEG]]
    /\ zs' = zs
    /\ enc_log' = enc_log \cup
           {[frame |-> Len(calls), tile |-> t, worker |-> index,
             stream |-> -1]}

\* tight_encode_tile_jpeg: size is 0 when the compression failed (rc < 0,
\* tile->size keeps the value 0 set by tight_encode_tile).
tight_encode_tile_jpeg(index, t, size) ==
    /\ grid' = [grid EXCEPT ![t] =
           [state |-> "ENCODED", size |-> size, type |-> TIGHT_JPEG]]
    /\ zs' = zs
    /\ enc_log' = enc_log \cup
           {[frame |-> Len(calls), tile |-> t, worker |-> index,
             stream |-> -1]}

tight_encode_tile(index, t) ==
    IF quality = "LOSSLESS"
    THEN \E size \in EncodedSizes : tight_encode_tile_basic(index, t, size)
    ELSE \E size \in EncodedSizes \cup {0} : tight_encode_tile_jpeg(index, t, size)

\* One iteration of the loops that finds a damaged tile; the job function
\* returns after the iteration that encodes the last damaged tile of the shard.
do_tight_zs_work_tile(index) ==
    /\ ~aborted
    /\ zs_worker[index] = "started"
    /\ \E t \in ShardTiles(index) : grid[t].state = "DAMAGED"
    /\ tight_encode_tile(index, NextDamaged(index))
    /\ zs_worker' = [zs_worker EXCEPT ![index] =
           IF \E t \in ShardTiles(index) : grid'[t].state = "DAMAGED"
           THEN "started" ELSE "done"]
    /\ UNCHANGED <<h264_vars, framer_vars, display_vars, size_vars,
                   callback_ctx,
                   width, height, n_jobs, n_rects, quality, on_frame_done,
                   dst, fb_ref, finish_work, aborted, calls, done_log>>

\* The loops find no damaged tile in the shard.
do_tight_zs_work_return(index) ==
    /\ ~aborted
    /\ zs_worker[index] = "started"
    /\ \A t \in ShardTiles(index) : grid[t].state # "DAMAGED"
    /\ zs_worker' = [zs_worker EXCEPT ![index] = "done"]
    /\ UNCHANGED <<h264_vars, framer_vars, display_vars, size_vars,
                   callback_ctx,
                   width, height, grid, zs, n_jobs, n_rects, quality,
                   on_frame_done, dst, fb_ref, finish_work, aborted, calls,
                   done_log, enc_log>>

(***************************************************************************)
(* on_tight_zs_work_done (main thread), with schedule_tight_finish.        *)
(* started: whether aml_work_new/aml_start of the finish job succeeded.    *)
(***************************************************************************)
schedule_tight_finish(started) ==
    finish_work' = IF started THEN "started" ELSE finish_work

\* Mutant: the finish job is scheduled by every shard completion.
on_tight_zs_work_done_each(index, started) ==
    /\ ~aborted
    /\ zs_worker[index] = "done"
    /\ zs_worker' = [zs_worker EXCEPT ![index] = "idle"]
    /\ n_jobs' = n_jobs - 1
    /\ finish_work = "none"
    /\ fb_ref' = fb_ref - 1
    /\ schedule_tight_finish(started)
    /\ UNCHANGED <<h264_vars, framer_vars, display_vars, size_vars,
                   callback_ctx,
                   width, height, grid, zs, n_rects, quality, on_frame_done,
                   dst, aborted, calls, done_log, enc_log>>

on_tight_zs_work_done(index, started) ==
    /\ ~aborted
    /\ zs_worker[index] = "done"
    /\ zs_worker' = [zs_worker EXCEPT ![index] = "idle"]
    /\ n_jobs' = n_jobs - 1
    /\ IF n_jobs - 1 = 0
       THEN /\ fb_ref' = fb_ref - 1
            /\ schedule_tight_finish(started)
       ELSE UNCHANGED <<fb_ref, finish_work>>
    /\ UNCHANGED <<h264_vars, framer_vars, display_vars, size_vars,
                   callback_ctx,
                   width, height, grid, zs, n_rects, quality, on_frame_done,
                   dst, aborted, calls, done_log, enc_log>>

(***************************************************************************)
(* do_tight_finish (worker thread): tight_finish over the whole grid.      *)
(***************************************************************************)
\* encode_rect_head + type byte + size + payload of one tile
tight_finish_tile(t) ==
    [kind |-> "head", encoding |-> RFB_ENCODING_TIGHT,
     x |-> t[1] * TSL, y |-> t[2] * TSL,
     w |-> tight_tile_width(t[1] * TSL), h |-> tight_tile_height(t[2] * TSL),
     type |-> grid[t].type, size |-> grid[t].size]

TileAt(k) == <<k % grid_width, k \div grid_width>>

RECURSIVE FinishFrom(_)
FinishFrom(k) ==
    IF k >= grid_width * grid_height THEN <<>>
    ELSE IF grid[TileAt(k)].state = "ENCODED"
         THEN <<tight_finish_tile(TileAt(k))>> \o FinishFrom(k + 1)
         ELSE FinishFrom(k + 1)

\* Mutant: finished tiles keep the state encoded.
tight_finish_keep ==
    /\ dst' = dst \o FinishFrom(0)
    /\ grid' = grid

tight_finish ==
    /\ dst' = dst \o FinishFrom(0)
    /\ grid' = [t \in Tiles |->
           IF grid[t].state = "ENCODED"
           THEN [grid[t] EXCEPT !.state = "READY"] ELSE grid[t]]

do_tight_finish ==
    /\ ~aborted
    /\ finish_work = "started"
    /\ tight_finish
    /\ finish_work' = "done"
    /\ UNCHANGED <<h264_vars, framer_vars, display_vars, size_vars,
                   callback_ctx,
                   width, height, zs, n_jobs, n_rects, quality, on_frame_done,
                   fb_ref, zs_worker, aborted, calls, done_log, enc_log>>

(***************************************************************************)
(* on_tight_finished (main thread): self->on_frame_done(&self->dst, ...)   *)
(***************************************************************************)
on_tight_finished ==
    /\ ~aborted
    /\ finish_work = "done"
    /\ finish_work' = "none"
    /\ done_log' = Append(done_log,
           [frame |-> on_frame_done, dst |-> dst, n_rects |-> n_rects,
            ready |-> \A t \in Tiles : grid[t].state = "READY"])
    /\ Invoke("on_frame_done", ThreadOf("on_tight_finished", tight_finish_work))
    /\ UNCHANGED <<h264_vars, framer_vars, display_vars, size_vars, width, height, grid,
                   zs, n_jobs, n_rects, quality,
                   on_frame_done, dst, fb_ref, zs_worker, aborted, calls,
                   enc_log>>

(***************************************************************************)
(* Specification of the Tight encoder when every job can be started.       *)
(***************************************************************************)
TightEncodeFrame ==
    /\ TightQuiescent
    /\ \E damage \in DamageRegions, q \in Qualities :
           tight_encode_frame(damage, q, 4)

TightShardTile == \E i \in 0 .. 3 : do_tight_zs_work_tile(i)
TightShardReturn == \E i \in 0 .. 3 : do_tight_zs_work_return(i)
TightShardDone == \E i \in 0 .. 3 : on_tight_zs_work_done(i, TRUE)

NextTight ==
    \/ TightEncodeFrame
    \/ TightShardTile
    \/ TightShardReturn
    \/ TightShardDone
    \/ do_tight_finish
    \/ on_tight_finished

(***************************************************************************)
(* tight_encode_size: the compact length field of a Tight rectangle.       *)
(***************************************************************************)
\* The sizes of the length field: 0 .. 2^21 - 1
Sizes == 0 .. (2^21 - 1)

\* Mutant: the second byte never carries the continuation bit.
tight_encode_size_nocont(size) ==
    <<(size % 128) + (IF size >= 128 THEN 128 ELSE 0)>>
    \o (IF size >= 128 THEN <<(size \div 128) % 128>> ELSE <<>>)
    \o (IF size >= 16384 THEN <<(size \div 16384) % 256>> ELSE <<>>)

\* tight_encode_size(dst, size): the bytes appended to dst.
\*   (size & 0x7f) | ((size >= 128) << 7)
\*   ((size >> 7) & 0x7f) | ((size >= 16384) << 7)    if size >= 128
\*   (size >> 14) & 0xff                              if size >= 16384
tight_encode_size(size) ==
    <<(size % 128) + (IF size >= 128 THEN 128 ELSE 0)>>
    \o (IF size >= 128
        THEN <<((size \div 128) % 128) + (IF size >= 16384 THEN 128 ELSE 0)>>
        ELSE <<>>)
    \o (IF size >= 16384 THEN <<(size \div 16384) % 256>> ELSE <<>>)

\* One call of tight_encode_size on an empty vector.
TightEncodeSize ==
    /\ size_arg = -1
    /\ \E size \in Sizes :
           /\ size_arg' = size
           /\ size_out' = tight_encode_size(size)
    /\ UNCHANGED <<tight_vars, h264_vars, framer_vars, display_vars,
                   callback_ctx>>

NextEncodeSize == TightEncodeSize

(***************************************************************************)
(* Specification of the Tight encoder when aml_start may fail in           *)
(* tight_schedule_encoding_jobs: the first nstarted shard jobs are started *)
(* and tight_encode_frame returns -1.                                      *)
(***************************************************************************)
\* tight_finish on the vector that tight_encode_frame's failure path passed
\* to vec_destroy: the appends go to freed storage and may kill the process
\* (do_tight_finish is the outcome in which they do not).
do_tight_finish_destroyed ==
    /\ ~aborted
    /\ finish_work = "started"
    /\ calls[Len(calls)].rc = "fail"
    /\ aborted' = TRUE
    /\ UNCHANGED <<h264_vars, framer_vars, display_vars, size_vars,
                   callback_ctx,
                   width, height, grid, zs, n_jobs, n_rects, quality,
                   on_frame_done, dst, fb_ref, zs_worker, finish_work, calls,
                   done_log, enc_log>>

TightEncodeFrameMayFail ==
    /\ TightQuiescent
    /\ \E damage \in DamageRegions, q \in Qualities, nstarted \in 0 .. 4 :
           tight_encode_frame(damage, q, nstarted)

NextTightMayFail ==
    \/ TightEncodeFrameMayFail
    \/ TightShardTile
    \/ TightShardReturn
    \/ TightShardDone
    \/ do_tight_finish
    \/ do_tight_finish_destroyed
    \/ on_tight_finished

(***************************************************************************)
(* tight_apply_damage on its own: one call on the freshly initialised grid *)
(* with a damage region of one rectangle inside the frame, or none.        *)
(***************************************************************************)
\* Pixel coordinates at and next to the tile borders
BorderCoords == {0, 10, 63, 64, 65, 127, 128}

ApplyDamageRegions ==
    {{}} \cup
    { {Box(x1, y1, x2, y2)} :
        x1 \in BorderCoords, y1 \in BorderCoords,
        x2 \in BorderCoords, y2 \in BorderCoords }

\* The rectangles of the region are not empty and lie inside the frame.
InsideFrame(damage) ==
    \A r \in damage :
        /\ r.x1 < r.x2 /\ r.x2 <= width
        /\ r.y1 < r.y2 /\ r.y2 <= height

TightApplyDamage ==
    /\ calls = <<>>
    /\ \E damage \in ApplyDamageRegions :
           /\ InsideFrame(damage)
           /\ grid' = tight_apply_damage(damage)
           /\ n_rects' = Cardinality(DamagedTiles(grid'))
           /\ calls' = <<[rc |-> "applied", damage |-> damage,
                          damaged |-> DamagedTiles(grid'),
                          n_rects |-> n_rects', quality |-> quality,
                          fb_ref |-> fb_ref, overlapping |-> FALSE]>>
    /\ UNCHANGED <<h264_vars, framer_vars, display_vars, size_vars,
                   callback_ctx,
                   width, height, zs, n_jobs, quality, on_frame_done, dst,
                   fb_ref, zs_worker, finish_work, aborted, done_log,
                   enc_log>>

NextApplyDamage == TightApplyDamage

(***************************************************************************)
(* Specification of the Tight encoder when the caller does not await       *)
(* on_done: tight_encode_frame is called while jobs of the previous frame  *)
(* are outstanding.  aml_start on a work object that is already started    *)
(* either fails or returns 0 without starting it again.  From the end of   *)
(* that call on, main thread and workers race on grid and dst; behaviours  *)
(* are followed up to the end of the call.                                 *)
(***************************************************************************)
\* The results tight_schedule_encoding_jobs can have: the index of the first
\* aml_start that fails, which is a job already started, or 4.
AmlStartOutcomes == {k \in 0 .. 4 : k < 4 => zs_worker[k] # "idle"}

Overlapped == \E f \in 1 .. Len(calls) : calls[f].overlapping

TightEncodeFrameOverlapping ==
    /\ ~TightQuiescent
    /\ \E damage \in DamageRegions, q \in Qualities,
          nstarted \in AmlStartOutcomes :
           tight_encode_frame(damage, q, nstarted)

NextTightOverlap ==
    \/ ~Overlapped /\ TightEncodeFrame
    \/ ~Overlapped /\ TightEncodeFrameOverlapping
    \/ ~Overlapped /\ TightShardTile
    \/ ~Overlapped /\ TightShardReturn
    \/ ~Overlapped /\ TightShardDone
    \/ ~Overlapped /\ do_tight_finish
    \/ ~Overlapped /\ on_tight_finished

(***************************************************************************)
(*                          H.264 encoder                                  *)
(***************************************************************************)
FBs == {1, 2}               \* the frame buffers the producer cycles through

NoFb == [fb |-> 0, seq |-> 0]                   \* current_fb == NULL
NoPacket == [seq |-> 0, data |-> <<>>]          \* current_packet == NULL

\* The bytes the codec writes into the packet when it encodes frame seq.
Payload(seq) == <<seq>>

\* Mutant: h264_encoder_create leaves the keyframe latch clear.
H264Init_nokey ==
    /\ fb_queue = <<>>
    /\ current_fb = NoFb
    /\ current_packet = NoPacket
    /\ next_frame_should_be_keyframe = FALSE
    /\ current_frame_is_keyframe = FALSE
    /\ work = "idle"
    /\ fb_refs = [f \in FBs |-> 1]
    /\ fb_holds = [f \in FBs |-> 0]
    /\ feeds = <<>>
    /\ last_op = [op |-> "create", queue_empty |-> TRUE]
    /\ req_since_entry = FALSE
    /\ entered = <<>>
    /\ codec_log = <<>>
    /\ completions = 0
    /\ packet_log = <<>>

\* State after h264_encoder_create().
H264Init ==
    /\ fb_queue = <<>>
    /\ current_fb = NoFb
    /\ current_packet = NoPacket
    /\ next_frame_should_be_keyframe = TRUE
    /\ current_frame_is_keyframe = FALSE
    /\ work = "idle"
    /\ fb_refs = [f \in FBs |-> 1]
    /\ fb_holds = [f \in FBs |-> 0]
    /\ feeds = <<>>
    /\ last_op = [op |-> "create", queue_empty |-> TRUE]
    /\ req_since_entry = FALSE
    /\ entered = <<>>
    /\ codec_log = <<>>
    /\ completions = 0
    /\ packet_log = <<>>

\* Mutant: the entry is inserted at the head of the queue.
fb_queue_enqueue_head(queue, entry) == <<entry>> \o queue

\* fb_queue_enqueue: TAILQ_INSERT_TAIL
fb_queue_enqueue(queue, entry) == Append(queue, entry)

\* fb_queue_dequeue: TAILQ_FIRST / TAILQ_REMOVE (queue not empty)
fb_queue_dequeue(queue) == [fb |-> Head(queue), rest |-> Tail(queue)]

\* Mutant: the keyframe latch is not cleared when it is consumed.
h264_encoder__schedule_work_keep(queue, cur, w) ==
    IF cur # NoFb \/ queue = <<>>
    THEN /\ fb_queue' = queue
         /\ current_fb' = cur
         /\ work' = w
         /\ UNCHANGED <<current_frame_is_keyframe,
                        next_frame_should_be_keyframe, entered,
                        req_since_entry>>
    ELSE /\ current_fb' = fb_queue_dequeue(queue).fb
         /\ fb_queue' = fb_queue_dequeue(queue).rest
         /\ current_frame_is_keyframe' = next_frame_should_be_keyframe
         /\ next_frame_should_be_keyframe' = next_frame_should_be_keyframe
         /\ work' = "started"
         /\ entered' = Append(entered,
                [seq |-> fb_queue_dequeue(queue).fb.seq,
                 req_since |-> req_since_entry])
         /\ req_since_entry' = FALSE

\* Mutant: the test for an occupied current_fb slot is missing.
h264_encoder__schedule_work_noguard(queue, cur, w) ==
    IF queue = <<>>
    THEN /\ fb_queue' = queue
         /\ current_fb' = cur
         /\ work' = w
         /\ UNCHANGED <<current_frame_is_keyframe,
                        next_frame_should_be_keyframe, entered,
                        req_since_entry>>
    ELSE /\ current_fb' = fb_queue_dequeue(queue).fb
         /\ fb_queue' = fb_queue_dequeue(queue).rest
         /\ current_frame_is_keyframe' = next_frame_should_be_keyframe
         /\ next_frame_should_be_keyframe' = FALSE
         /\ work' = "started"
         /\ entered' = Append(entered,
                [seq |-> fb_queue_dequeue(queue).fb.seq,
                 req_since |-> req_since_entry])
         /\ req_since_entry' = FALSE

\* h264_encoder__schedule_work, on the queue `queue`, with current_fb = cur
\* and the work object in state w when it is called.
h264_encoder__schedule_work(queue, cur, w) ==
    IF cur # NoFb \/ queue = <<>>
    THEN /\ fb_queue' = queue
         /\ current_fb' = cur
         /\ work' = w
         /\ UNCHANGED <<current_frame_is_keyframe,
                        next_frame_should_be_keyframe, entered,
                        req_since_entry>>
    ELSE /\ current_fb' = fb_queue_dequeue(queue).fb
         /\ fb_queue' = fb_queue_dequeue(queue).rest
         /\ current_frame_is_keyframe' = next_frame_should_be_keyframe
         /\ next_frame_should_be_keyframe' = FALSE
         /\ work' = "started"
         /\ entered' = Append(entered,
                [seq |-> fb_queue_dequeue(queue).fb.seq,
                 req_since |-> req_since_entry])
         /\ req_since_entry' = FALSE

\* h264_encoder_feed (main thread)
h264_encoder_feed(fb) ==
    /\ Len(feeds) < MaxFeeds
    /\ fb_refs' = [fb_refs EXCEPT ![fb] = @ + 1]
    /\ fb_holds' = [fb_holds EXCEPT ![fb] = @ + 1]
    /\ h264_encoder__schedule_work(
           fb_queue_enqueue(fb_queue, [fb |-> fb, seq |-> Len(feeds) + 1]),
           current_fb, work)
    /\ feeds' = Append(feeds,
           [fb |-> fb,
            after_req |-> (last_op.op = "request"),
            queue_empty_at_req |-> last_op.queue_empty,
            idle |-> (current_fb = NoFb /\ fb_queue = <<>>),
            req_after |-> FALSE])
    /\ last_op' = [op |-> "feed", queue_empty |-> TRUE]
    /\ UNCHANGED <<current_packet, codec_log, completions, packet_log>>
    /\ UNCHANGED <<tight_vars, size_vars, framer_vars, display_vars, callback_ctx>>

\* h264_encoder_request_keyframe (main thread)
h264_encoder_request_keyframe ==
    /\ Len(feeds) < MaxFeeds
    /\ next_frame_should_be_keyframe' = TRUE
    /\ last_op' = [op |-> "request", queue_empty |-> (fb_queue = <<>>)]
    /\ req_since_entry' = TRUE
    /\ feeds' = [k \in 1 .. Len(feeds) |->
           IF \E j \in 1 .. Len(entered) : entered[j].seq = k
           THEN feeds[k] ELSE [feeds[k] EXCEPT !.req_after = TRUE]]
    /\ UNCHANGED <<fb_queue, current_fb, current_packet,
                   current_frame_is_keyframe, work, fb_refs, fb_holds,
                   entered, codec_log, completions, packet_log>>
    /\ UNCHANGED <<tight_vars, size_vars, framer_vars, display_vars, callback_ctx>>

\* self->current_packet after h264_encoder__do_work: when rc == 0 the packet
\* is freed and the slot keeps its value; otherwise the packet, which the
\* failed encode left blank, is stored.
PacketAfterEncode(rc, seq) ==
    IF rc = 0 THEN current_packet ELSE [seq |-> seq, data |-> <<>>]

\* h264_encoder__do_work (worker thread); rc is the result of
\* h264_encoder__encode: 0 when the codec returned a packet.
h264_encoder__do_work(rc) ==
    /\ work = "started"
    /\ codec_log' = Append(codec_log,
           [seq |-> current_fb.seq,
            pict |-> IF current_frame_is_keyframe THEN "I" ELSE "P",
            rc |-> rc,
            data |-> IF rc = 0 THEN Payload(current_fb.seq) ELSE <<>>])
    /\ current_packet' = PacketAfterEncode(rc, current_fb.seq)
    /\ work' = "done"
    /\ UNCHANGED <<fb_queue, current_fb, next_frame_should_be_keyframe,
                   current_frame_is_keyframe, fb_refs, fb_holds, feeds,
                   last_op, req_since_entry, entered, completions,
                   packet_log>>
    /\ UNCHANGED <<tight_vars, size_vars, framer_vars, display_vars, callback_ctx>>

\* Mutant: the finished frame buffer is released but its ref is kept.
h264_encoder__on_work_done_nounref ==
    /\ work = "done"
    /\ fb_holds' = [fb_holds EXCEPT ![current_fb.fb] = @ - 1]
    /\ fb_refs' = fb_refs
    /\ completions' = completions + 1
    /\ IF current_packet = NoPacket
       THEN /\ current_fb' = NoFb
            /\ work' = "idle"
            /\ UNCHANGED <<fb_queue, current_packet,
                           next_frame_should_be_keyframe,
                           current_frame_is_keyframe, entered,
                           req_since_entry, packet_log, callback_ctx>>
       ELSE /\ packet_log' = Append(packet_log, current_packet)
            /\ Invoke("on_packet_ready",
                      ThreadOf("h264_encoder__on_work_done", h264_work))
            /\ current_packet' = NoPacket
            /\ h264_encoder__schedule_work(fb_queue, NoFb, "idle")
    /\ UNCHANGED <<feeds, last_op, codec_log>>
    /\ UNCHANGED <<tight_vars, size_vars, framer_vars, display_vars>>

\* h264_encoder__on_work_done (main thread)
h264_encoder__on_work_done ==
    /\ work = "done"
    /\ fb_holds' = [fb_holds EXCEPT ![current_fb.fb] = @ - 1]
    /\ fb_refs' = [fb_refs EXCEPT ![current_fb.fb] = @ - 1]
    /\ completions' = completions + 1
    /\ IF current_packet = NoPacket
       THEN /\ current_fb' = NoFb
            /\ work' = "idle"
            /\ UNCHANGED <<fb_queue, current_packet,
                           next_frame_should_be_keyframe,
                           current_frame_is_keyframe, entered,
                           req_since_entry, packet_log, callback_ctx>>
       ELSE /\ packet_log' = Append(packet_log, current_packet)
            /\ Invoke("on_packet_ready",
                      ThreadOf("h264_encoder__on_work_done", h264_work))
            /\ current_packet' = NoPacket
            /\ h264_encoder__schedule_work(fb_queue, NoFb, "idle")
    /\ UNCHANGED <<feeds, last_op, codec_log>>
    /\ UNCHANGED <<tight_vars, size_vars, framer_vars, display_vars>>

H264Feed == \E fb \in FBs : h264_encoder_feed(fb)
H264DoWork == \E rc \in {0, -1} : h264_encoder__do_work(rc)

NextH264 ==
    \/ H264Feed
    \/ h264_encoder_request_keyframe
    \/ H264DoWork
    \/ h264_encoder__on_work_done

(***************************************************************************)
(*                         Open-H.264 framer                               *)
(***************************************************************************)
OPEN_H264_FLAG_RESET_CONTEXT == 0
RFB_ENCODING_OPEN_H264 == 50

\* (width, height, fourcc_format) of the frame buffers fed to the framer
FbShapes == {<<640, 480, 1>>, <<800, 600, 1>>, <<640, 480, 2>>}

\* Packets the encoder hands to the packet handler (a failed encode's packet
\* is blank).
PacketPayloads == {<<>>, <<7>>, <<8, 9>>}

\* Big-endian encodings (htons / htonl of the value, as laid out in memory)
BE16(n) == <<(n \div 256) % 256, n % 256>>
BE32(n) == <<(n \div 16777216) % 256, (n \div 65536) % 256,
             (n \div 256) % 256, n % 256>>

encode_rect_count(n) == BE16(n)
encode_rect_head(encoding, x, y, w, h) ==
    BE16(x) \o BE16(y) \o BE16(w) \o BE16(h) \o BE32(encoding)

\* open_h264_encode_header: what it appends to the (cleared) vector
open_h264_encode_header(payload_size, flags) ==
    encode_rect_count(1)
    \o encode_rect_head(RFB_ENCODING_OPEN_H264, 0, 0, o_width, o_height)
    \o BE32(payload_size) \o BE32(flags)

NoRead == [rc |-> -2, before |-> <<>>, after |-> <<>>, pending |-> <<>>,
           arrived |-> <<>>, width |-> 0, height |-> 0, first |-> FALSE,
           pending_after |-> <<>>]

NoFeedFrame == [called |-> FALSE, rc |-> 0, fed |-> FALSE,
                shape |-> <<0, 0, 0>>, destroyed |-> 0, outstanding |-> 0]

\* State after open_h264_init() on the zeroed struct of nvnc_display_new.
FramerInit ==
    /\ encoder = 0
    /\ pending = <<>>
    /\ o_width = 0 /\ o_height = 0 /\ o_format = 0
    /\ needs_reset = FALSE
    /\ buffer = <<>>
    /\ enc_unanswered = 0
    /\ arrived = <<>>
    /\ recreated = FALSE
    /\ n_feed_frames = 0
    /\ n_reads = 0
    /\ last_read = NoRead
    /\ last_feed_frame = NoFeedFrame

\* Mutant: the recreation does not set needs_reset.
open_h264_resize_noreset(shape) ==
    /\ encoder' = n_feed_frames + 1
    /\ o_width' = shape[1]
    /\ o_height' = shape[2]
    /\ o_format' = shape[3]
    /\ needs_reset' = needs_reset

\* open_h264_resize: the encoder is replaced by a new instance
open_h264_resize(shape) ==
    /\ encoder' = n_feed_frames + 1
    /\ o_width' = shape[1]
    /\ o_height' = shape[2]
    /\ o_format' = shape[3]
    /\ needs_reset' = TRUE

\* The value open_h264_feed_frame returns: -1 when open_h264_resize failed,
\* and the final `return -1` after h264_encoder_feed.
FeedFrameResult(fed) == IF fed THEN -1 ELSE -1

\* open_h264_feed_frame; created: whether h264_encoder_create succeeds when
\* the frame's shape differs from the framer's.
open_h264_feed_frame(shape, created) ==
    /\ n_feed_frames < MaxFeedFrames
    /\ n_feed_frames' = n_feed_frames + 1
    /\ IF shape # <<o_width, o_height, o_format>>
       THEN IF created
            THEN /\ open_h264_resize(shape)
                 /\ recreated' = TRUE
                 /\ enc_unanswered' = 1
                 /\ last_feed_frame' = [called |-> TRUE,
                                        rc |-> FeedFrameResult(TRUE),
                                        fed |-> TRUE, shape |-> shape,
                                        destroyed |-> encoder,
                                        outstanding |-> enc_unanswered]
            ELSE /\ UNCHANGED <<encoder, o_width, o_height, o_format,
                                needs_reset, recreated, enc_unanswered>>
                 /\ last_feed_frame' = [called |-> TRUE,
                                        rc |-> FeedFrameResult(FALSE),
                                        fed |-> FALSE, shape |-> shape,
                                        destroyed |-> 0, outstanding |-> 0]
       ELSE /\ created
            /\ enc_unanswered' = enc_unanswered + 1
            /\ UNCHANGED <<encoder, o_width, o_height, o_format, needs_reset,
                           recreated>>
            /\ last_feed_frame' = [called |-> TRUE,
                                   rc |-> FeedFrameResult(TRUE),
                                   fed |-> TRUE, shape |-> shape,
                                   destroyed |-> 0, outstanding |-> 0]
    /\ UNCHANGED <<pending, buffer, arrived, n_reads, last_read>>

\* vec_append(vec, data, size)
vec_append(vec, data) == vec \o data

\* Mutant: the packet replaces the pending bytes instead of following them.
open_h264_handle_packet_assign(data) ==
    /\ encoder # 0
    /\ enc_unanswered > 0
    /\ enc_unanswered' = enc_unanswered - 1
    /\ pending' = data
    /\ arrived' = Append(arrived, [data |-> data, width |-> o_width,
                                    height |-> o_height])
    /\ Invoke("on_ready", packet_handler_thread)
    /\ UNCHANGED <<encoder, o_width, o_height, o_format, needs_reset, buffer,
                   recreated, n_feed_frames, n_reads, last_read,
                   last_feed_frame>>
    /\ UNCHANGED <<tight_vars, size_vars, h264_vars, display_vars>>

\* open_h264_handle_packet: the encoder's packet handler (main thread)
open_h264_handle_packet(data) ==
    /\ encoder # 0
    /\ enc_unanswered > 0
    /\ enc_unanswered' = enc_unanswered - 1
    /\ pending' = vec_append(pending, data)
    /\ arrived' = Append(arrived, [data |-> data, width |-> o_width,
                                    height |-> o_height])
    /\ Invoke("on_ready", packet_handler_thread)
    /\ UNCHANGED <<encoder, o_width, o_height, o_format, needs_reset, buffer,
                   recreated, n_feed_frames, n_reads, last_read,
                   last_feed_frame>>
    /\ UNCHANGED <<tight_vars, size_vars, h264_vars, display_vars>>

\* uint32_t flags = self->needs_reset ? OPEN_H264_FLAG_RESET_CONTEXT : 0
ResetFlags == IF needs_reset THEN OPEN_H264_FLAG_RESET_CONTEXT ELSE 0

\* Mutant: the buffer is cleared before pending is examined.
ReadNoData_clear == <<>>

\* The caller's buffer after open_h264_read returned 0
ReadNoData == buffer

\* open_h264_read(self, buffer)
open_h264_read ==
    /\ n_reads < MaxReads
    /\ n_reads' = n_reads + 1
    /\ IF Len(pending) = 0
       THEN /\ buffer' = ReadNoData
            /\ UNCHANGED <<pending, needs_reset, arrived, recreated>>
            /\ last_read' = [rc |-> 0, before |-> buffer, after |-> buffer',
                             pending |-> pending, arrived |-> arrived,
                             width |-> o_width, height |-> o_height,
                             first |-> recreated,
                             pending_after |-> pending']
       ELSE /\ buffer' = vec_append(
                   open_h264_encode_header(Len(pending), ResetFlags), pending)
            /\ needs_reset' = FALSE
            /\ pending' = <<>>
            /\ arrived' = <<>>
            /\ recreated' = FALSE
            /\ last_read' = [rc |-> 1, before |-> buffer, after |-> buffer',
                             pending |-> pending, arrived |-> arrived,
                             width |-> o_width, height |-> o_height,
                             first |-> recreated,
                             pending_after |-> pending']
    /\ UNCHANGED <<encoder, o_width, o_height, o_format, enc_unanswered,
                   n_feed_frames, last_feed_frame>>
    /\ UNCHANGED <<tight_vars, size_vars, h264_vars, display_vars, callback_ctx>>

FramerFeedFrame ==
    /\ \E shape \in FbShapes, created \in BOOLEAN :
           open_h264_feed_frame(shape, created)
    /\ UNCHANGED <<tight_vars, size_vars, h264_vars, display_vars, callback_ctx>>
FramerPacket == \E data \in PacketPayloads : open_h264_handle_packet(data)

NextFramer ==
    \/ FramerFeedFrame
    \/ FramerPacket
    \/ open_h264_read

(***************************************************************************)
(*                         Display aggregator                              *)
(***************************************************************************)
\* The producer's frame buffers and the resampler's pool buffer.
ProducerFBs == {"gbm_a", "gbm_b", "shm"}
PoolFBs == {"pool"}
DisplayFBs == ProducerFBs \cup PoolFBs
NoBuffer == "NULL"                              \* self->buffer == NULL

\* fb->type, fb->transform, (fb->width, fb->height, fb->fourcc_format)
FbType(fb) == IF fb \in {"gbm_a", "gbm_b"} THEN "GBM_BO" ELSE "SIMPLE"
FbTransform(fb) == "NORMAL"
FbShape(fb) == IF fb = "gbm_b" THEN <<800, 600, 1>> ELSE <<640, 480, 1>>

\* nvnc_fb_ref / nvnc_fb_unref / nvnc_fb_hold / nvnc_fb_release, applied to
\* the display's share of the frame buffer's counters.
nvnc_fb_ref(refs, fb) == [refs EXCEPT ![fb] = @ + 1]
nvnc_fb_unref(refs, fb) == [refs EXCEPT ![fb] = @ - 1]
nvnc_fb_hold(holds, fb) == [holds EXCEPT ![fb] = @ + 1]
nvnc_fb_release(holds, fb) == [holds EXCEPT ![fb] = @ - 1]

NoHandover == [same |-> FALSE, fb |-> NoBuffer, hold |-> 0, ref |-> 0]

\* The counters of fb after the release and unref of the previous buffer
\* and before its own ref and hold, when fb is that previous buffer.
Handover(prev, fb, holds1, refs1) ==
    IF prev = fb
    THEN [same |-> TRUE, fb |-> fb, hold |-> holds1[fb], ref |-> refs1[fb]]
    ELSE NoHandover

\* State after nvnc_display_new() and the display's registration with the
\* server (self->server is set).
DisplayInit ==
    /\ d_buffer = NoBuffer
    /\ d_ref = 1
    /\ d_freed = FALSE
    /\ is_open_h264_supported = FALSE
    /\ d_fb_ref = [f \in DisplayFBs |-> 0]
    /\ d_fb_hold = [f \in DisplayFBs |-> 0]
    /\ rs_pending = {}
    /\ n_display_feeds = 0
    /\ rs_done = [n \in 1 .. MaxDisplayFeeds |-> <<>>]
    /\ damage_log = <<>>
    /\ d_handover = NoHandover

\* resampler_feed(self->resampler, fb, damage, on_done, self): the
\* completion is posted to the main loop.
resampler_feed(fb, damage) ==
    rs_pending' = rs_pending \cup {[n |-> damage, fb |-> fb]}

\* The frame buffer a completion delivers: the input passed through, or a
\* pool buffer the previous consumer no longer holds.
ResamplerOutputs(job) ==
    {job.fb} \cup {f \in PoolFBs : d_fb_hold[f] = 0}

\* nvnc_display_feed_buffer(self, fb, damage); created: whether
\* h264_encoder_create succeeds should the framer need a new encoder. The
\* refined and transformed damage is identified by the number of the call.
nvnc_display_feed_buffer(fb, created) ==
    /\ ~d_freed
    /\ n_display_feeds < MaxDisplayFeeds
    /\ n_display_feeds' = n_display_feeds + 1
    /\ IF FbType(fb) = "GBM_BO" /\ FbTransform(fb) = "NORMAL"
       THEN /\ is_open_h264_supported' = TRUE
            /\ open_h264_feed_frame(FbShape(fb), created)
       ELSE /\ is_open_h264_supported' = FALSE
            /\ created
            /\ UNCHANGED framer_vars
    /\ resampler_feed(fb, n_display_feeds + 1)
    /\ UNCHANGED <<d_buffer, d_ref, d_freed, d_fb_ref, d_fb_hold, rs_done,
                   damage_log,
                   d_handover>>
    /\ UNCHANGED <<tight_vars, size_vars, h264_vars, callback_ctx>>

\* nvnc__damage_region(self->server, damage), with the current buffer the
\* session finds when it is notified.
nvnc__damage_region(damage, current) ==
    damage_log' = Append(damage_log, [damage |-> damage, buffer |-> current])

\* Mutant: the session is notified before the new buffer is adopted.
nvnc_display__on_resampler_done_early(job, fb) ==
    LET prev == d_buffer
        holds1 == IF prev # NoBuffer THEN nvnc_fb_release(d_fb_hold, prev)
                  ELSE d_fb_hold
        refs1 == IF prev # NoBuffer THEN nvnc_fb_unref(d_fb_ref, prev) ELSE d_fb_ref
    IN  /\ job \in rs_pending
        /\ ~d_freed
        /\ rs_pending' = rs_pending \ {job}
        /\ rs_done' = [rs_done EXCEPT ![job.n] = Append(@, fb)]
        /\ nvnc__damage_region(job.n, prev)
        /\ d_buffer' = fb
        /\ d_fb_ref' = nvnc_fb_ref(refs1, fb)
        /\ d_fb_hold' = nvnc_fb_hold(holds1, fb)
        /\ d_handover' = Handover(prev, fb, holds1, refs1)
        /\ Invoke("on_resampler_done", resampler_done_thread)
        /\ UNCHANGED <<d_ref, d_freed, is_open_h264_supported,
                       n_display_feeds>>
        /\ UNCHANGED <<tight_vars, size_vars, h264_vars, framer_vars>>

\* Mutant: the previous buffer is released but its ref is kept.
nvnc_display__on_resampler_done_leak(job, fb) ==
    LET prev == d_buffer
        holds1 == IF prev # NoBuffer THEN nvnc_fb_release(d_fb_hold, prev)
                  ELSE d_fb_hold
    IN  /\ job \in rs_pending
        /\ ~d_freed
        /\ rs_pending' = rs_pending \ {job}
        /\ rs_done' = [rs_done EXCEPT ![job.n] = Append(@, fb)]
        /\ d_buffer' = fb
        /\ d_fb_ref' = nvnc_fb_ref(d_fb_ref, fb)
        /\ d_fb_hold' = nvnc_fb_hold(holds1, fb)
        /\ d_handover' = Handover(prev, fb, holds1, d_fb_ref)
        /\ nvnc__damage_region(job.n, d_buffer')
        /\ Invoke("on_resampler_done", resampler_done_thread)
        /\ UNCHANGED <<d_ref, d_freed, is_open_h264_supported,
                       n_display_feeds>>
        /\ UNCHANGED <<tight_vars, size_vars, h264_vars, framer_vars>>

\* nvnc_display__on_resampler_done(fb, damage, userdata): the completion of
\* the resampler job `job`, delivering frame buffer fb.
nvnc_display__on_resampler_done(job, fb) ==
    LET prev == d_buffer
        holds1 == IF prev # NoBuffer THEN nvnc_fb_release(d_fb_hold, prev)
                  ELSE d_fb_hold
        refs1 == IF prev # NoBuffer THEN nvnc_fb_unref(d_fb_ref, prev) ELSE d_fb_ref
    IN  /\ job \in rs_pending
        /\ ~d_freed
        /\ rs_pending' = rs_pending \ {job}
        /\ rs_done' = [rs_done EXCEPT ![job.n] = Append(@, fb)]
        /\ d_buffer' = fb
        /\ d_fb_ref' = nvnc_fb_ref(refs1, fb)
        /\ d_fb_hold' = nvnc_fb_hold(holds1, fb)
        /\ d_handover' = Handover(prev, fb, holds1, refs1)
        /\ nvnc__damage_region(job.n, d_buffer')
        /\ Invoke("on_resampler_done", resampler_done_thread)
        /\ UNCHANGED <<d_ref, d_freed, is_open_h264_supported,
                       n_display_feeds>>
        /\ UNCHANGED <<tight_vars, size_vars, h264_vars, framer_vars>>

\* nvnc_display_ref
nvnc_display_ref ==
    /\ ~d_freed
    /\ d_ref < MaxDisplayRefs
    /\ d_ref' = d_ref + 1
    /\ UNCHANGED <<d_buffer, d_freed, is_open_h264_supported, d_fb_ref,
                   d_fb_hold, rs_pending, n_display_feeds, rs_done,
                   damage_log,
                   d_handover>>
    /\ UNCHANGED <<tight_vars, size_vars, h264_vars, framer_vars, callback_ctx>>

\* nvnc__display_free: gives the current buffer back and destroys the framer
\* (open_h264_destroy) and the resampler.
nvnc__display_free ==
    /\ d_freed' = TRUE
    /\ d_fb_hold' = IF d_buffer # NoBuffer THEN nvnc_fb_release(d_fb_hold, d_buffer)
                    ELSE d_fb_hold
    /\ d_fb_ref' = IF d_buffer # NoBuffer THEN nvnc_fb_unref(d_fb_ref, d_buffer)
                   ELSE d_fb_ref
    /\ encoder' = 0
    /\ pending' = <<>>
    /\ UNCHANGED <<o_width, o_height, o_format, needs_reset, buffer,
                   enc_unanswered, arrived, recreated, n_feed_frames, n_reads,
                   last_read, last_feed_frame>>

\* nvnc_display_unref. The last reference is dropped only by a caller that
\* has drained the resampler (destruction with outstanding jobs is
\* disallowed).
nvnc_display_unref ==
    /\ ~d_freed
    /\ d_ref > 0
    /\ d_ref = 1 => rs_pending = {}
    /\ d_ref' = d_ref - 1
    /\ IF d_ref' = 0
       THEN nvnc__display_free
       ELSE UNCHANGED <<d_freed, d_fb_hold, d_fb_ref, framer_vars>>
    /\ UNCHANGED <<d_buffer, is_open_h264_supported, rs_pending,
                   n_display_feeds, rs_done, damage_log,
                   d_handover>>
    /\ UNCHANGED <<tight_vars, size_vars, h264_vars, callback_ctx>>

DisplayFeedBuffer ==
    \E fb \in ProducerFBs, created \in BOOLEAN :
        nvnc_display_feed_buffer(fb, created)
ResamplerDone ==
    \E job \in rs_pending : \E fb \in ResamplerOutputs(job) :
        nvnc_display__on_resampler_done(job, fb)

NextDisplay ==
    \/ DisplayFeedBuffer
    \/ ResamplerDone
    \/ nvnc_display_ref
    \/ nvnc_display_unref

Init ==
    /\ TightInit /\ H264Init /\ FramerInit /\ DisplayInit
    /\ callback_ctx = {}
    /\ size_arg = -1 /\ size_out = <<>>

SpecH264 == Init /\ [][NextH264]_vars

SpecFramer == Init /\ [][NextFramer]_vars

SpecTight == Init /\ [][NextTight]_vars

SpecApplyDamage == Init /\ [][NextApplyDamage]_vars

SpecTightOverlap == Init /\ [][NextTightOverlap]_vars

SpecTightMayFail == Init /\ [][NextTightMayFail]_vars

SpecEncodeSize == Init /\ [][NextEncodeSize]_vars

SpecDisplay == Init /\ [][NextDisplay]_vars

\* The four components share no state but the record of callbacks, so a
\* callback invoked off the main thread in the running program is invoked
\* off the main thread by one component taken alone: each component runs
\* from the initial state while the others have not been called.
TightUntouched == calls = <<>>
H264Untouched == feeds = <<>> /\ last_op.op = "create"
FramerUntouched == n_feed_frames = 0 /\ n_reads = 0
DisplayUntouched == n_display_feeds = 0 /\ d_ref = 1 /\ ~d_freed

NextComponent ==
    \/ H264Untouched /\ FramerUntouched /\ DisplayUntouched /\ NextTight
    \/ TightUntouched /\ FramerUntouched /\ DisplayUntouched /\ NextH264
    \/ TightUntouched /\ H264Untouched /\ DisplayUntouched /\ NextFramer
    \/ /\ TightUntouched /\ H264Untouched
       /\ FramerUntouched \/ ~DisplayUntouched
       /\ NextDisplay

SpecComponents == Init /\ [][NextComponent]_vars

\* The resampler posts the completion of every job it was fed.
SpecDisplayLive == Init /\ [][NextDisplay]_vars /\ WF_vars(ResamplerDone)

\* The thread pool and the main loop keep running: while some shard job,
\* completion callback or finish job is pending, one of them is run.
TightJobs ==
    \/ TightShardTile
    \/ TightShardReturn
    \/ TightShardDone
    \/ do_tight_finish
    \/ on_tight_finished

TightFairness == WF_vars(TightJobs)

SpecTightLive == Init /\ [][NextTight]_vars /\ TightFairness

(***************************************************************************)
(* Properties of the Tight encoder.                                        *)
(***************************************************************************)
\* Number of on_frame_done invocations made with the callback of call f.
DoneCount(f) == Cardinality({k \in 1 .. Len(done_log) : done_log[k].frame = f})

\* The rectangle heads of a finished payload.
Heads(d) == {i \in 1 .. Len(d) : d[i].kind = "head"}

HasHeadFor(d, t) ==
    \E i \in Heads(d) : d[i].x = 64 * t[1] /\ d[i].y = 64 * t[2]

\* C1 (safety part): on_done is invoked at most once per accepted frame, and
\* the vector it receives holds a rectangle for every damaged tile.
C1_Safe ==
    \A f \in 1 .. Len(calls) :
        calls[f].rc = "ok" =>
            /\ DoneCount(f) <= 1
            /\ \A k \in 1 .. Len(done_log) :
                   done_log[k].frame = f =>
                       \A t \in calls[f].damaged : HasHeadFor(done_log[k].dst, t)

C2_RectCountMatchesHeads ==
    \A k \in 1 .. Len(done_log) :
        LET d == done_log[k].dst
        IN  /\ Len(d) >= 1
            /\ d[1].kind = "count"
            /\ d[1].n = Cardinality(Heads(d))
            /\ \A i \in 2 .. Len(d) : d[i].kind = "head"

C2_Witness ==
    \E k \in 1 .. Len(done_log) :
        LET d == done_log[k].dst
        IN  /\ d[1].n >= 2
            /\ \E i \in Heads(d) : d[i].type = 144 /\ d[i].size = 0
            /\ \E i \in Heads(d) : d[i].type = 144 /\ d[i].size > 0

\* C3: a damaged tile at grid column x is encoded only by shard x mod 4 and,
\* in basic mode, only through deflate stream x mod 4; no tile is written by
\* two shards, no stream is used by two shards, and the control byte of a
\* basic tile carries stream index x mod 4.
C3_ShardRouting ==
    /\ \A e \in enc_log :
           /\ e.worker = e.tile[1] % 4
           /\ e.stream # -1 => e.stream = e.tile[1] % 4
    /\ \A e1, e2 \in enc_log :
           /\ (e1.frame = e2.frame /\ e1.tile = e2.tile) => e1.worker = e2.worker
           /\ (e1.stream # -1 /\ e1.stream = e2.stream) => e1.worker = e2.worker
    /\ \A i \in 0 .. 3 : \A k \in 1 .. Len(zs[i]) : zs[i][k][1] % 4 = i
    /\ \A t \in Tiles :
           (grid[t].state = "ENCODED" /\ quality = "LOSSLESS") =>
               grid[t].type = 16 * (t[1] % 4)

C3_Witness ==
    /\ quality = "LOSSLESS"
    /\ \E e1, e2 \in enc_log :
           /\ e1.frame = e2.frame
           /\ e1.tile[1] = 0 /\ e2.tile[1] = 4
           /\ e1.worker = 0 /\ e2.worker = 0
           /\ grid[e1.tile].state = "ENCODED" /\ grid[e2.tile].state = "ENCODED"
    /\ \E i \in 1 .. 3 : zs_worker[i] = "started"

(***************************************************************************)
(* Properties of the H.264 encoder.                                        *)
(***************************************************************************)
\* C4: packets are delivered in the order their frame buffers were fed.
C4_PacketsInFeedOrder ==
    \A i, j \in 1 .. Len(packet_log) :
        i < j => packet_log[i].seq < packet_log[j].seq

C4_Witness ==
    /\ Len(packet_log) >= 2
    /\ \E k \in 2 .. Len(feeds) : ~feeds[k].idle

\* The feed record of the frame encoded by the k-th worker job.
FeedOf(k) == feeds[codec_log[k].seq]

\* G was fed right after F, F right after a request_keyframe, and no request
\* was made between feed(F) and the moment G entered encoding.
FedAfterKeyframeFeed(k) ==
    /\ codec_log[k].seq >= 2
    /\ feeds[codec_log[k].seq - 1].after_req
    /\ ~FeedOf(k).after_req
    /\ ~FeedOf(k).req_after

\* C5 as stated: from any reachable state, the frame fed right after
\* request_keyframe is encoded as a keyframe and the next one as a delta.
C5_KeyframeOnNextFeed ==
    \A k \in 1 .. Len(codec_log) :
        /\ FeedOf(k).after_req => codec_log[k].pict = "I"
        /\ FedAfterKeyframeFeed(k) => codec_log[k].pict = "P"

\* C5 amended: the latch takes effect on the next frame buffer that enters
\* encoding. When no frame buffer is queued at the time of request_keyframe
\* that is the frame fed right after it; otherwise it is the oldest queued
\* frame. A following feed without another request gives a delta frame.
C5_KeyframeOnNextEntering ==
    \A k \in 1 .. Len(codec_log) :
        /\ (FeedOf(k).after_req /\ FeedOf(k).queue_empty_at_req) =>
               codec_log[k].pict = "I"
        /\ entered[k].req_since => codec_log[k].pict = "I"
        /\ FedAfterKeyframeFeed(k) => codec_log[k].pict = "P"

C5_Witness ==
    \E k \in 2 .. Len(codec_log) :
        /\ FedAfterKeyframeFeed(k) /\ codec_log[k].pict = "P"
        /\ \E j \in 2 .. Len(codec_log) :
               /\ codec_log[j].seq = codec_log[k].seq - 1
               /\ feeds[codec_log[j].seq].queue_empty_at_req
               /\ ~feeds[codec_log[j].seq].idle
               /\ codec_log[j].pict = "I"

\* C6: on a fresh encoder the first frame that enters encoding is a keyframe;
\* every later frame is a delta frame unless request_keyframe was called
\* since the previous frame entered encoding.
C6_FirstFrameKeyThenDelta ==
    \A k \in 1 .. Len(codec_log) :
        /\ codec_log[k].seq = entered[k].seq
        /\ k = 1 => codec_log[k].pict = "I"
        /\ (k > 1 /\ ~entered[k].req_since) => codec_log[k].pict = "P"

C6_Witness ==
    /\ Len(codec_log) >= 3
    /\ codec_log[1].pict = "I"
    /\ codec_log[2].pict = "P"
    /\ entered[3].req_since

\* Number of on_packet_ready invocations for the frame of feed seq.
Delivered(seq) ==
    Cardinality({i \in 1 .. Len(packet_log) : packet_log[i].seq = seq})

\* C7: once the completion handler of a job has run, a successful encode
\* (status 0) has led to exactly one on_packet_ready with the packet's
\* payload, and a failed encode to none.
C7_PacketIffEncodeSucceeded ==
    \A k \in 1 .. completions :
        IF codec_log[k].rc = 0
        THEN /\ Delivered(codec_log[k].seq) = 1
             /\ \A i \in 1 .. Len(packet_log) :
                    packet_log[i].seq = codec_log[k].seq =>
                        packet_log[i].data = codec_log[k].data
        ELSE Delivered(codec_log[k].seq) = 0

(***************************************************************************)
(* Properties of the Open-H.264 framer.                                    *)
(***************************************************************************)
U16At(b, i) == b[i] * 256 + b[i + 1]
U32At(b, i) == ((b[i] * 256 + b[i + 1]) * 256 + b[i + 2]) * 256 + b[i + 3]

RECURSIVE Flatten(_)
Flatten(packets) ==
    IF packets = <<>> THEN <<>>
    ELSE Head(packets).data \o Flatten(Tail(packets))

\* C8: a read with pending bytes returns 1, leaves in the buffer exactly
\* count 1, the head (0,0,W,H) with encoding 50, the big-endian length of
\* the pending bytes, a big-endian flags word and the bytes of all packets
\* received since the previous successful read, and empties pending.
C8_ReadLayout ==
    (last_read.rc # -2 /\ last_read.pending # <<>>) =>
        LET b == last_read.after
            p == last_read.pending
        IN  /\ last_read.rc = 1
            /\ Len(b) = 22 + Len(p)
            /\ U16At(b, 1) = 1
            /\ U16At(b, 3) = 0 /\ U16At(b, 5) = 0
            /\ U16At(b, 7) = last_read.width
            /\ U16At(b, 9) = last_read.height
            /\ U32At(b, 11) = 50
            /\ U32At(b, 15) = Len(p)
            /\ \A i \in 19 .. 22 : b[i] \in 0 .. 255
            /\ \A i \in 1 .. Len(p) : b[22 + i] = p[i]
            /\ p = Flatten(last_read.arrived)
            /\ last_read.pending_after = <<>>

C8_Witness ==
    /\ last_read.rc = 1
    /\ Len(last_read.arrived) >= 2
    /\ Len(last_read.pending) >= 3
    /\ last_read.before # <<>>
    /\ last_read.before # last_read.after

\* C9 as stated: a read with nothing pending returns 0 and leaves the
\* caller's buffer empty, also when the previous read filled it.
C9_EmptyReadLeavesBufferEmpty ==
    (last_read.rc # -2 /\ last_read.pending = <<>>) =>
        (last_read.rc = 0 /\ last_read.after = <<>>)

\* C9 amended: a read with nothing pending returns 0 and leaves the caller's
\* buffer as it was (empty only if it was empty before the call).
C9_EmptyReadLeavesBufferUnchanged ==
    (last_read.rc # -2 /\ last_read.pending = <<>>) =>
        (last_read.rc = 0 /\ last_read.after = last_read.before)

C9_Witness ==
    /\ last_read.rc = 0
    /\ last_read.before # <<>>
    /\ last_read.after = last_read.before

\* C10: the first rectangle emitted after the encoder was recreated carries
\* flags 0x1, every other rectangle flags 0.
C10_ResetFlagOncePerRecreation ==
    last_read.rc = 1 =>
        U32At(last_read.after, 19) = (IF last_read.first THEN 1 ELSE 0)
(***************************************************************************)
(* Properties of the framer's feed path.                                   *)
(***************************************************************************)
\* C11: open_h264_feed_frame returns 0 whenever the frame buffer was handed
\* to the H.264 encoder, and a negative value only when the encoder could not
\* be (re)created.
C11_FeedFrameReturnsZeroWhenFed ==
    last_feed_frame.called =>
        /\ last_feed_frame.fed => last_feed_frame.rc = 0
        /\ last_feed_frame.rc < 0 => ~last_feed_frame.fed

(***************************************************************************)
(* Properties of the display aggregator.                                   *)
(***************************************************************************)
\* C12: the current buffer, if present, has a hold and one ref owned by the
\* display; every other buffer has none: a replaced (or, at destruction,
\* dropped) buffer got exactly one release and one unref, and the adopted
\* buffer exactly one ref and one hold.
C12_CurrentBufferHeld ==
    \A f \in DisplayFBs :
        IF ~d_freed /\ f = d_buffer
        THEN d_fb_hold[f] = 1 /\ d_fb_ref[f] = 1
        ELSE d_fb_hold[f] = 0 /\ d_fb_ref[f] = 0

C12_Witness ==
    /\ ~d_freed
    /\ d_buffer # NoBuffer
    /\ Len(damage_log) >= 2
    /\ damage_log[1].buffer # damage_log[2].buffer

\* Notifications made for the damage of feed_buffer call n.
NotificationsOf(n) == {k \in 1 .. Len(damage_log) : damage_log[k].damage = n}

\* C13 (safety part): no feed_buffer call gets more than one completion,
\* every completion made exactly one damage_region call, and at that call
\* the current buffer was the frame buffer the completion delivered.
C13_Safe ==
    \A n \in 1 .. MaxDisplayFeeds :
        /\ Len(rs_done[n]) <= 1
        /\ Cardinality(NotificationsOf(n)) = Len(rs_done[n])
        /\ \A k \in NotificationsOf(n) : damage_log[k].buffer = rs_done[n][1]

\* C13: each nvnc_display_feed_buffer call leads to exactly one resampler
\* completion, each completion to exactly one damage_region notification,
\* issued when the delivered frame buffer is already the current buffer.
C13_FeedLeadsToOneNotification ==
    /\ []C13_Safe
    /\ \A n \in 1 .. MaxDisplayFeeds :
           (n_display_feeds >= n) ~> (Len(rs_done[n]) = 1)

C13_Witness ==
    /\ n_display_feeds >= 2
    /\ Len(rs_done[1]) = 1 /\ Len(rs_done[2]) = 1
    /\ damage_log[1].damage = 2
    /\ damage_log[2].buffer # damage_log[1].buffer

(***************************************************************************)
(* Threads.                                                                *)
(***************************************************************************)
\* C14: every callback invoked on a collaborator (Tight on_done, H.264
\* on_packet_ready, Open-H.264 on_ready, resampler completion) runs on the
\* main thread, never in the work function of a worker job.
C14_CallbacksOnMainThread ==
    \A c \in callback_ctx : c.thread = "main"

C14_Witness ==
    /\ [callback |-> "on_ready", thread |-> "main"] \in callback_ctx
    /\ Len(arrived) >= 1

(***************************************************************************)
(* Frame buffer ownership and scheduling of the H.264 encoder.             *)
(***************************************************************************)
\* Ref/hold pairs the encoder should own on frame buffer f: one per queue
\* entry for f, and one if f is the frame buffer in flight.
EncoderOwned(f) ==
    Cardinality({i \in 1 .. Len(fb_queue) : fb_queue[i].fb = f})
    + (IF current_fb.fb = f THEN 1 ELSE 0)

\* C15: every feed takes one ref and one hold, every completion gives one
\* release and one unref back: on each frame buffer the encoder owns as many
\* ref/hold pairs as the queue holds entries for it, plus one when it is the
\* frame buffer in flight (the producer keeps its own ref).
C15_RefHoldPairsMatchQueue ==
    /\ \A f \in FBs :
           /\ fb_holds[f] = EncoderOwned(f)
           /\ fb_refs[f] = 1 + EncoderOwned(f)
    /\ Len(fb_queue) + (IF current_fb = NoFb THEN 0 ELSE 1)
           = Len(feeds) - completions

C15_Witness ==
    /\ completions >= 1
    /\ \E f \in FBs : EncoderOwned(f) = 2 /\ fb_holds[f] = 2

(***************************************************************************)
(* Failure of tight_encode_frame.                                          *)
(***************************************************************************)
\* C16: a tight_encode_frame call that returned a failure code dropped the
\* frame: on_done is never invoked for it, and when it is the latest call no
\* shard job is left started or running, no finish job is pending, and the
\* frame buffer's ref count equals its value before the call.
C16_FailedFrameIsDropped ==
    \A f \in 1 .. Len(calls) :
        calls[f].rc = "fail" =>
            /\ DoneCount(f) = 0
            /\ f = Len(calls) =>
                   /\ \A i \in 0 .. 3 : zs_worker[i] = "idle"
                   /\ finish_work = "none"
                   /\ fb_ref = calls[f].fb_ref

(***************************************************************************)
(* The compact size encoding.                                              *)
(***************************************************************************)
\* The value of little-endian 7-bit groups.
RECURSIVE Decode7(_)
Decode7(b) ==
    IF b = <<>> THEN 0 ELSE (b[1] % 128) + 128 * Decode7(Tail(b))

\* C17: for every size in 0 .. 2^21 - 1 tight_encode_size appends 1 byte if
\* size < 128, 2 bytes if size < 16384 and 3 bytes otherwise; every byte but
\* the last has its MSB set, the last has not, and the 7-bit groups decode
\* to size.
C17_CompactSize ==
    size_arg # -1 =>
        /\ Len(size_out) = (IF size_arg < 128 THEN 1
                            ELSE IF size_arg < 16384 THEN 2 ELSE 3)
        /\ \A i \in 1 .. Len(size_out) :
               /\ size_out[i] \in 0 .. 255
               /\ (size_out[i] >= 128) <=> (i < Len(size_out))
        /\ Decode7(size_out) = size_arg

C17_Witness ==
    /\ size_arg = 2 * 64 * 64 * 4
    /\ Len(size_out) = 3

(***************************************************************************)
(* Legal damage regions.                                                   *)
(***************************************************************************)
\* C18: tight_encode_frame accepts every legal damage region, the empty
\* region and regions that overlap no tile box included: the assertion
\* n_rects > 0 never fails and the process is not aborted.
C18_AssertionNeverFails ==
    /\ ~aborted
    /\ \A f \in 1 .. Len(calls) : calls[f].rc # "abort"

\* Worker jobs of the encoder that were started and whose completion
\* handler has not run yet.
JobsInFlight == Len(entered) - completions

\* A feed made while the current_fb slot is occupied only enqueues.
FeedWhileOccupiedOnlyEnqueues ==
    (Len(feeds') = Len(feeds) + 1 /\ current_fb # NoFb) =>
        /\ Len(fb_queue') = Len(fb_queue) + 1
        /\ entered' = entered
        /\ current_fb' = current_fb
        /\ work' = work

\* C19: at most one worker job is in flight, current_fb is non-null exactly
\* while that job is in flight (from its scheduling until its completion
\* handler has run), and a feed made while the slot is occupied only
\* enqueues and starts no second job.
C19_AtMostOneJobInFlight ==
    /\ [](/\ JobsInFlight \in {0, 1}
          /\ (current_fb # NoFb) <=> (JobsInFlight = 1)
          /\ (current_fb # NoFb) <=> (work \in {"started", "done"}))
    /\ [][FeedWhileOccupiedOnlyEnqueues]_vars

C19_Witness ==
    /\ current_fb # NoFb
    /\ Len(fb_queue) >= 1
    /\ completions >= 1
    /\ work = "started"

\* C20: after every job completion, whether the encode produced a packet or
\* not, the next queued frame buffer is scheduled, so that at no handler
\* boundary frame buffers are queued while no job is in flight (and every
\* frame buffer fed is therefore eventually encoded and released).
C20_QueueNeverStalls ==
    (current_fb = NoFb) => (fb_queue = <<>>)

\* C21: an encoder is never destroyed while it has an encode job in flight
\* or frame buffers queued: the encoder open_h264_feed_frame destroys when
\* the frame buffer's shape differs has no frame outstanding.
C21_DestroyedEncoderIsIdle ==
    (last_feed_frame.called /\ last_feed_frame.destroyed # 0) =>
        last_feed_frame.outstanding = 0

\* The framer's stored (width, height, format)
StoredShape == <<o_width, o_height, o_format>>

\* A step that is a call of open_h264_feed_frame
IsFeedFrameStep == n_feed_frames' = n_feed_frames + 1

\* What the call does when the shapes are equal, and what it leaves when
\* they differ and the encoder is recreated.
FeedFrameRecreatesIffShapeDiffers ==
    LET fb == last_feed_frame'.shape IN
    /\ (encoder' # encoder /\ needs_reset') <=> (fb # StoredShape)
    /\ (fb = StoredShape) =>
           /\ encoder' = encoder
           /\ StoredShape' = StoredShape
           /\ needs_reset' = needs_reset
    /\ last_feed_frame'.fed
    /\ enc_unanswered' >= 1
    /\ StoredShape' = fb

\* C22 (as stated): open_h264_feed_frame recreates the encoder and sets
\* needs_reset iff the frame buffer's shape differs from the stored one; when
\* they are equal encoder, stored shape and needs_reset are unchanged; in both
\* cases the frame buffer is fed and the stored shape is its shape afterwards.
C22_RecreateIffShapeDiffers ==
    [][IsFeedFrameStep => FeedFrameRecreatesIffShapeDiffers]_vars

\* C22 (amended): the same, unless the shape differs and h264_encoder_create
\* fails; then the call returns -1, nothing is fed and encoder, stored shape
\* and needs_reset keep their values.
C22_RecreateIffShapeDiffersAndCreated ==
    [][IsFeedFrameStep =>
         \/ FeedFrameRecreatesIffShapeDiffers
         \/ /\ last_feed_frame'.shape # StoredShape
            /\ ~last_feed_frame'.fed
            /\ last_feed_frame'.rc = -1
            /\ UNCHANGED <<encoder, o_width, o_height, o_format, needs_reset,
                           enc_unanswered, pending>>]_vars

\* Both cases have happened: a feed of an equal shape after a recreation.
C22_Witness ==
    /\ last_feed_frame.called
    /\ last_feed_frame.fed
    /\ last_feed_frame.destroyed = 0
    /\ encoder # 0
    /\ encoder < n_feed_frames
    /\ needs_reset
    /\ enc_unanswered = 2

\* A call of tight_encode_frame made while a job of the previous frame is
\* outstanding
IsOverlappingCall == Len(calls') = Len(calls) + 1 /\ ~TightQuiescent

\* C23: a tight_encode_frame call made before the previous frame delivered
\* on_done is stopped by an assertion and leaves the tile states, the job
\* counter, the destination vector and the callback of the frame in flight.
C23_OverlappingCallAsserts ==
    [][IsOverlappingCall =>
         /\ aborted'
         /\ UNCHANGED <<grid, n_jobs, dst, on_frame_done>>]_vars

\* A shard job is outstanding: started, or finished with its completion
\* handler still to run.
ShardOutstanding == \E i \in 0 .. 3 : zs_worker[i] # "idle"

\* A step that schedules the finish job
FinishScheduled == finish_work' = "started" /\ finish_work # "started"

TileMoves == {<<"READY", "DAMAGED">>, <<"DAMAGED", "ENCODED">>,
              <<"ENCODED", "READY">>}

\* The shard jobs that encoded tile t of frame f
EncodersOf(f, t) == {e \in enc_log : e.frame = f /\ e.tile = t}

\* C25: a tile only moves ready -> damaged -> encoded -> ready; every tile
\* that tight_apply_damage marked damaged is encoded by exactly one shard and
\* finished exactly once; when on_done is invoked every tile is ready.
C25_TileLifecycle ==
    /\ [][\A t \in Tiles :
            grid'[t].state # grid[t].state =>
                <<grid[t].state, grid'[t].state>> \in TileMoves]_vars
    /\ [](\A k \in 1 .. Len(done_log) :
            /\ done_log[k].ready
            /\ \A t \in calls[done_log[k].frame].damaged :
                 /\ Cardinality(EncodersOf(done_log[k].frame, t)) = 1
                 /\ Cardinality({i \in 1 .. Len(done_log[k].dst) :
                        /\ done_log[k].dst[i].kind = "head"
                        /\ done_log[k].dst[i].x = t[1] * TSL
                        /\ done_log[k].dst[i].y = t[2] * TSL}) = 1)
    /\ [](\A e \in enc_log : e.tile \in calls[e.frame].damaged)

\* on_done of a second frame whose two damaged tiles, in columns 0 and 4, were
\* both encoded by shard 0.
C25_Witness ==
    /\ Len(done_log) = 2
    /\ calls[2].damaged = {<<0, 0>>, <<4, 0>>}
    /\ calls[1].damaged = {<<0, 0>>, <<1, 0>>}
    /\ \A t \in calls[2].damaged : \E e \in EncodersOf(2, t) : e.worker = 0

\* The pixel extent [64*gx, 64*gx+64) x [64*gy, 64*gy+64) of tile t
\* intersects the damage region.
ExtentIntersects(damage, t) ==
    \E r \in damage :
        /\ r.x1 < 64 * t[1] + 64 /\ 64 * t[1] < r.x2
        /\ r.y1 < 64 * t[2] + 64 /\ 64 * t[2] < r.y2

\* C26: tight_apply_damage marks a tile damaged iff the tile's pixel extent
\* intersects the damage region, also for rectangles that touch only the
\* last pixel column or row of the tile; all other tiles are set to ready.
C26_DamagedIffExtentIntersects ==
    \A f \in 1 .. Len(calls) :
        calls[f].rc = "applied" =>
            \A t \in Tiles :
                /\ grid[t].state = "DAMAGED" <=>
                       ExtentIntersects(calls[f].damage, t)
                /\ grid[t].state \in {"DAMAGED", "READY"}

\* The rectangle heads of a finished payload, in the order they appear
HeadsOf(d) == SelectSeq(d, LAMBDA e : e.kind = "head")

\* The grid position a rectangle head stands for
TileOfHead(h) == <<h.x \div 64, h.y \div 64>>

Min(a, b) == IF a < b THEN a ELSE b

\* C27: in the finished payload the rectangle heads are in row-major grid
\* order, one per damaged tile, with x = 64*gx, y = 64*gy,
\* width = min(64, W - 64*gx), height = min(64, H - 64*gy); they lie inside
\* the frame and are pairwise disjoint; a 128x128 lossless frame damaged as
\* a whole gives (0,0), (64,0), (0,64), (64,64) with the basic control bytes
\* of streams 0, 1, 0, 1.
C27_RectGeometry ==
    \A k \in 1 .. Len(done_log) :
        LET hs == HeadsOf(done_log[k].dst)
            call == calls[done_log[k].frame]
        IN  /\ {TileOfHead(hs[i]) : i \in 1 .. Len(hs)} = call.damaged
            /\ Len(hs) = Cardinality(call.damaged)
            /\ \A i \in 1 .. Len(hs) :
                 /\ hs[i].x = 64 * TileOfHead(hs[i])[1]
                 /\ hs[i].y = 64 * TileOfHead(hs[i])[2]
                 /\ hs[i].w = Min(64, width - hs[i].x)
                 /\ hs[i].h = Min(64, height - hs[i].y)
                 /\ hs[i].w > 0 /\ hs[i].x + hs[i].w <= width
                 /\ hs[i].h > 0 /\ hs[i].y + hs[i].h <= height
            /\ \A i, j \in 1 .. Len(hs) :
                 i < j =>
                   /\ RowMajor(TileOfHead(hs[i])) < RowMajor(TileOfHead(hs[j]))
                   /\ \/ hs[i].x + hs[i].w <= hs[j].x
                      \/ hs[j].x + hs[j].w <= hs[i].x
                      \/ hs[i].y + hs[i].h <= hs[j].y
                      \/ hs[j].y + hs[j].h <= hs[i].y
            /\ (width = 128 /\ height = 128 /\ call.quality = "LOSSLESS"
                  /\ Cardinality(call.damaged) = 4) =>
                 /\ [i \in 1 .. 4 |-> <<hs[i].x, hs[i].y>>]
                      = << <<0, 0>>, <<64, 0>>, <<0, 64>>, <<64, 64>> >>
                 /\ [i \in 1 .. 4 |-> hs[i].type]
                      = <<TIGHT_BASIC + TIGHT_STREAM(0),
                          TIGHT_BASIC + TIGHT_STREAM(1),
                          TIGHT_BASIC + TIGHT_STREAM(0),
                          TIGHT_BASIC + TIGHT_STREAM(1)>>

\* on_done of a lossless, wholly damaged 128x128 frame, after a frame on
\* which it was the second.
C27_Witness ==
    /\ width = 128 /\ height = 128
    /\ Len(done_log) = 2
    /\ calls[2].quality = "LOSSLESS"
    /\ Cardinality(calls[2].damaged) = 4
    /\ Len(HeadsOf(done_log[2].dst)) = 4

\* C28: a damaged tile whose JPEG compression failed, or whose output was
\* larger than the tile buffer, is not put into state encoded, and no Tight
\* JPEG rectangle with an empty payload is appended to dst for it.
C28_FailedJpegTileIsNotSent ==
    /\ \A t \in Tiles :
         ~(grid[t].state = "ENCODED" /\ grid[t].type = TIGHT_JPEG
             /\ grid[t].size = 0)
    /\ \A i \in 1 .. Len(dst) :
         dst[i].kind = "head" =>
             ~(dst[i].type = TIGHT_JPEG /\ dst[i].size = 0)

\* C29: every rectangle open_h264_read emits carries the width and height
\* of the encoder that produced its payload bytes: packets of an encoder of
\* one size are not emitted under the head of a later, recreated encoder.
C29_PayloadMatchesHeadSize ==
    last_read.rc = 1 =>
        \A i \in 1 .. Len(last_read.arrived) :
            /\ last_read.arrived[i].width = last_read.width
            /\ last_read.arrived[i].height = last_read.height

\* C30: when the resampler completion delivers the frame buffer that is
\* already the current buffer, the hold count of that frame buffer does not
\* reach 0 during the replacement, so that its release callback is not fired
\* while it remains the current buffer.  Stated for a frame buffer that the
\* display alone holds: one of storage kind system memory, which is never
\* fed to the encoder.
C30_SameBufferNeverReleased ==
    (d_handover.same /\ FbType(d_handover.fb) = "SIMPLE") =>
        d_handover.hold > 0

====
